---- MODULE Spec2Model ----
(***************************************************************************)
(* Model of the Reflect USDC / USDC+ routing adapter (amm_reflect).        *)
(*                                                                         *)
(* The adapter caches two exchange rates, converts amounts with them       *)
(* (quote) and builds the account list of the swap instruction             *)
(* (get_swap_and_account_metas).                                           *)
(*                                                                         *)
(* Numbers.  The code computes in u64 and u128.  TLC's integers are 32 bit,*)
(* so a u64 / u128 value is modelled as the sequence of its bytes, least   *)
(* significant first, with no leading zero byte (0 is << >>).  A u64 has   *)
(* at most 8 bytes and a u128 at most 16, so the widths of the code are    *)
(* kept exactly: `as u64` keeps the low 8 bytes and a checked u128         *)
(* operation fails when its result needs a 17th byte.                      *)
(***************************************************************************)
EXTENDS Integers, Sequences, FiniteSets, TLC

(***************************************************************************)
(* Byte-sequence arithmetic (the u64 / u128 primitives the code uses).     *)
(***************************************************************************)

\* drop the most significant zero bytes
RECURSIVE Norm(_)
Norm(s) ==
    IF s = <<>> THEN <<>>
    ELSE IF s[Len(s)] = 0 THEN Norm(SubSeq(s, 1, Len(s) - 1)) ELSE s

\* the value of an integer literal of the source (below 2^31)
RECURSIVE Lit(_)
Lit(n) == IF n = 0 THEN <<>> ELSE <<n % 256>> \o Lit(n \div 256)

RECURSIVE CmpAt(_, _, _)
CmpAt(a, b, i) ==
    IF i = 0 THEN 0
    ELSE IF a[i] < b[i] THEN -1
    ELSE IF a[i] > b[i] THEN 1
    ELSE CmpAt(a, b, i - 1)

\* -1, 0, 1 as a < b, a = b, a > b
Cmp(a, b) ==
    IF Len(a) < Len(b) THEN -1
    ELSE IF Len(a) > Len(b) THEN 1
    ELSE CmpAt(a, b, Len(a))

Leq(a, b) == Cmp(a, b) <= 0

Lt(a, b) == Cmp(a, b) < 0

RECURSIVE AddC(_, _, _)
AddC(a, b, c) ==
    IF a = <<>> /\ b = <<>> THEN (IF c = 0 THEN <<>> ELSE <<c>>)
    ELSE LET x == IF a = <<>> THEN 0 ELSE Head(a)
             y == IF b = <<>> THEN 0 ELSE Head(b)
             s == x + y + c
         IN  <<s % 256>> \o AddC(IF a = <<>> THEN <<>> ELSE Tail(a),
                                 IF b = <<>> THEN <<>> ELSE Tail(b),
                                 s \div 256)

\* a + b, unbounded
Add(a, b) == AddC(a, b, 0)

RECURSIVE SubB(_, _, _)
SubB(a, b, borrow) ==
    IF a = <<>> THEN <<>>
    ELSE LET y == IF b = <<>> THEN 0 ELSE Head(b)
             d == Head(a) - y - borrow
         IN  <<d % 256>> \o SubB(Tail(a),
                                 IF b = <<>> THEN <<>> ELSE Tail(b),
                                 IF d < 0 THEN 1 ELSE 0)

\* a - b for a >= b
Sub(a, b) == Norm(SubB(a, b, 0))

RECURSIVE MulSmallC(_, _, _)
MulSmallC(a, k, c) ==
    IF a = <<>> THEN (IF c = 0 THEN <<>> ELSE <<c>>)
    ELSE LET s == Head(a) * k + c
         IN  <<s % 256>> \o MulSmallC(Tail(a), k, s \div 256)

\* a * k for one byte k
MulSmall(a, k) == IF k = 0 THEN <<>> ELSE MulSmallC(a, k, 0)

\* a * b, unbounded (schoolbook, one byte of b at a time)
RECURSIVE Mul(_, _)
Mul(a, b) ==
    IF a = <<>> \/ b = <<>> THEN <<>>
    ELSE LET rest == Mul(a, Tail(b))
         IN  Add(MulSmall(a, Head(b)),
                 IF rest = <<>> THEN <<>> ELSE <<0>> \o rest)

ByteAt(s, i) == IF i >= 1 /\ i <= Len(s) THEN s[i] ELSE 0

\* an upper estimate of r \div b from the leading bytes, for r < 256 * b;
\* it exceeds the quotient by at most one
QuotEstimate(b, r) ==
    LET n == Len(b) IN
    IF n = 1 THEN (ByteAt(r, 2) * 256 + ByteAt(r, 1)) \div b[1]
    ELSE LET r3 == ByteAt(r, n + 1) * 65536 + ByteAt(r, n) * 256 + ByteAt(r, n - 1)
             b2 == b[n] * 256 + b[n - 1]
             q  == r3 \div b2
         IN  IF q > 255 THEN 255 ELSE q

\* the largest q <= guess with b * q <= r
RECURSIVE QuotDigit(_, _, _)
QuotDigit(b, r, guess) ==
    IF guess = 0 \/ Leq(MulSmall(b, guess), r) THEN guess
    ELSE QuotDigit(b, r, guess - 1)

\* long division, most significant byte of a first
RECURSIVE DivStep(_, _, _, _, _)
DivStep(a, i, b, rem, q) ==
    IF i = 0 THEN [q |-> Norm(q), r |-> rem]
    ELSE LET r1 == Norm(<<a[i]>> \o rem)
             d  == IF Lt(r1, b) THEN 0 ELSE QuotDigit(b, r1, QuotEstimate(b, r1))
         IN  DivStep(a, i - 1, b, Sub(r1, MulSmall(b, d)), <<d>> \o q)

\* a \div b for b > 0
Div(a, b) == DivStep(a, Len(a), b, <<>>, <<>>).q

(***************************************************************************)
(* Rust values: Option, Result, and a panic that unwinds out of the call.  *)
(***************************************************************************)

Some(v) == [some |-> TRUE, val |-> v]

None == [some |-> FALSE]

Ok(v) == [tag |-> "Ok", val |-> v]

Err(e) == [tag |-> "Err", err |-> e]

Panic(m) == [tag |-> "Panic", msg |-> m]

\* u64::MAX = 2^64 - 1
u64_MAX == [i \in 1..8 |-> 255]

\* u128::MAX = 2^128 - 1
u128_MAX == [i \in 1..16 |-> 255]

\* `x as u128` of a u64: the value is kept
as_u128(x) == x

\* `x as u64` of a u128: the low 64 bits are kept, the rest is dropped
as_u64(x) == IF Len(x) <= 8 THEN x ELSE Norm(SubSeq(x, 1, 8))

\* u128::checked_mul
checked_mul(a, b) ==
    LET p == Mul(a, b) IN IF Len(p) > 16 THEN None ELSE Some(p)

\* u128::checked_add
checked_add(a, b) ==
    LET s == Add(a, b) IN IF Len(s) > 16 THEN None ELSE Some(s)

\* u128::checked_div
checked_div(a, b) == IF b = <<>> THEN None ELSE Some(Div(a, b))

\* the plain `a - 1` on u128: with overflow checks compiled in (debug
\* profile) 0 - 1 panics, without them (release profile) it wraps
sub_one(a, checks) ==
    IF a # <<>> THEN Ok(Sub(a, Lit(1)))
    ELSE IF checks THEN Panic("attempt to subtract with overflow")
    ELSE Ok(u128_MAX)

(***************************************************************************)
(* Quote arithmetic.                                                       *)
(***************************************************************************)

BASE_AMOUNT == Lit(100000000)

\* an anyhow error is modelled as the tuple of its message and the values
\* formatted into it
ErrOverflow == <<"Overflow in quote calculation">>

ErrDivision == <<"Division error in quote calculation">>

\* calculate_exact_in rounding the quotient up instead of down
calculate_exact_in_round_up(amount, rate) ==
    LET m == checked_mul(as_u128(amount), as_u128(rate)) IN
    IF ~m.some THEN Err(ErrOverflow)
    ELSE LET s == checked_add(m.val, Sub(BASE_AMOUNT, Lit(1))) IN
         IF ~s.some THEN Err(ErrOverflow)
         ELSE Ok(as_u64(Div(s.val, BASE_AMOUNT)))

calculate_exact_in(amount, rate) ==
    LET m == checked_mul(as_u128(amount), as_u128(rate)) IN
    IF ~m.some THEN Err(ErrOverflow)
    ELSE LET d == checked_div(m.val, BASE_AMOUNT) IN
         IF ~d.some THEN Err(ErrDivision)
         ELSE Ok(as_u64(d.val))

\* calculate_exact_out without the "+ rate - 1": the quotient rounded down
calculate_exact_out_round_down(amount, rate, checks) ==
    LET m == checked_mul(as_u128(amount), BASE_AMOUNT) IN
    IF ~m.some THEN Err(ErrOverflow)
    ELSE LET d == checked_div(m.val, as_u128(rate)) IN
         IF ~d.some THEN Err(ErrDivision)
         ELSE Ok(as_u64(d.val))

calculate_exact_out(amount, rate, checks) ==
    LET m == checked_mul(as_u128(amount), BASE_AMOUNT) IN
    IF ~m.some THEN Err(ErrOverflow)
    ELSE LET r1 == sub_one(as_u128(rate), checks) IN
         IF r1.tag = "Panic" THEN r1
         ELSE LET s == checked_add(m.val, r1.val) IN
              IF ~s.some THEN Err(ErrOverflow)
              ELSE LET d == checked_div(s.val, as_u128(rate)) IN
                   IF ~d.some THEN Err(ErrDivision)
                   ELSE Ok(as_u64(d.val))

(***************************************************************************)
(* Addresses (constants.rs).                                               *)
(***************************************************************************)

REFLECT_LABEL == "ReflectAmm"

reflect_ID == "rf1ctRXK4bmG5XNttAMYfB3TKd2vQjFv5cfQhDBxdAQ"

drift_ID == "dRiftyHA39MWEi3m9aunc5MzRF1JYuBsbn6VPcn33UH"

reflect_main_ID == "4BXzppSAgWDHmcN7AwMAmDphJj3BFdbCFo3Sos2Vms6v"

usdc_controller_ID == "579cFgopyAezPgYzTyjYa8Gwphfw4YZ1cJADrMLHEPG5"

admin_permissions_ID == "F4NHcFQxvc6Kw1m6c2UmvmcwExcQkMcXDd7d4yXDow7S"

controller_usdc_ata_ID == "DRZE8YVE3UfsYzfTaPFKaNPtwG5BpYRBRXi6rEtzm3s5"

usdc_plus_mint_ID == "usd63SVWcKqLeyNHpmVhZGYAqfE5RHE8jwqjRA2ida2"

drift_state_ID == "5zpq7DvB6UdFFvpmBPspGPNfUGoBRRCE2HHg5u3gxcsN"

drift_user_stats_ID == "GkQmTinf982CB3uoExekVtpNLeU5Vg4K3LAVxKb4ZLY6"

referrer_user_stats_ID == "6zKsm3xy9CRwTaBsgRkoYkgSaVarZuaDApfqYq1EanTu"

referrer_user_ID == "9XuTCfYKnecKCw4sSYZXdnR85miLuVWETZSMBRMTNVrj"

reflect_user_account_strategy_0_ID == "F82oESzqX9fSGf9Sf3SP8PUfCGM9qUvHBAtvhZTqZrvt"

drift_spot_market_vault_ID == "GXWqPpjQpdz7KZw9p7f5PX2eGxHAhvpNXiviFkAB8zXg"

drift_vault_ID == "JCNCMFXo5M5qwUPg2Utu1u6YWp3MbygxqBsBeXXJfrw"

usdc_oracle_ID == "9VCioxmni2gDLv11qufWzT3RDERhQE4iY5Gf7NTfYyAV"

usdc_spot_market_ID == "6gMq3mRCKf8aP3ttTyYhuijVZ2LGi14oDsBbkgubfLB3"

usdc_mint_ID == "EPjFWdd5AufqSSqeM2qN1xzybapC8G4wEGGkZwyTDt1v"

token_program_ID == "TokenkegQfeZyiNwAJbNbGKPFXCWuBvf9Ss623VQ5DA"

\* solana_sdk::system_program::ID
system_program_ID == "11111111111111111111111111111111"

\* solana_sdk::sysvar::clock::ID
sysvar_clock_ID == "SysvarC1ock11111111111111111111111111111111"

(***************************************************************************)
(* The adapter.                                                            *)
(***************************************************************************)

ReflectAmm_new ==
    [ label                    |-> REFLECT_LABEL,
      program_id               |-> reflect_ID,
      main                     |-> reflect_main_ID,
      usdc_plus_controller     |-> usdc_controller_ID,
      admin_permissions        |-> admin_permissions_ID,
      usdc_plus_mint           |-> usdc_plus_mint_ID,
      controller_usdc_ata      |-> controller_usdc_ata_ID,
      drift_program            |-> drift_ID,
      drift_state              |-> drift_state_ID,
      drift_user_stats         |-> drift_user_stats_ID,
      usdc_plus_drift_user_acc |-> reflect_user_account_strategy_0_ID,
      drift_spot_market_vault  |-> drift_spot_market_vault_ID,
      drift_vault              |-> drift_vault_ID,
      referrer_user_stats      |-> referrer_user_stats_ID,
      referrer_user            |-> referrer_user_ID,
      drift_usdc_spot_market   |-> usdc_spot_market_ID,
      usdc_oracle              |-> usdc_oracle_ID,
      rate_100_usdc            |-> <<>>,
      rate_100_usdc_plus       |-> <<>> ]

ErrInvalidInputMint(input_mint) == <<"Invalid input mint", input_mint>>

\* get_rate_for_input_mint whose last branch answers with the USDC+ rate
\* instead of rejecting the mint
get_rate_for_input_mint_no_reject(self, input_mint) ==
    IF input_mint = usdc_mint_ID THEN Ok(self.rate_100_usdc)
    ELSE Ok(self.rate_100_usdc_plus)

\* get_rate_for_input_mint answering each mint with the other mint's rate
get_rate_for_input_mint_swapped(self, input_mint) ==
    IF input_mint = usdc_mint_ID THEN Ok(self.rate_100_usdc_plus)
    ELSE IF input_mint = usdc_plus_mint_ID THEN Ok(self.rate_100_usdc)
    ELSE Err(ErrInvalidInputMint(input_mint))

get_rate_for_input_mint(self, input_mint) ==
    IF input_mint = usdc_mint_ID THEN Ok(self.rate_100_usdc)
    ELSE IF input_mint = usdc_plus_mint_ID THEN Ok(self.rate_100_usdc_plus)
    ELSE Err(ErrInvalidInputMint(input_mint))

\* Quote built without its fee_mint line: fee_mint stays Quote::default()'s
\* Pubkey::default()
Quote_default_fee_mint(in_amount, out_amount, fee_amount, fee_mint) ==
    [ in_amount  |-> in_amount,
      out_amount |-> out_amount,
      fee_amount |-> fee_amount,
      fee_mint   |-> "11111111111111111111111111111111",
      fee_pct    |-> <<>> ]

\* fee_pct is Quote::default()'s Decimal zero
Quote(in_amount, out_amount, fee_amount, fee_mint) ==
    [ in_amount  |-> in_amount,
      out_amount |-> out_amount,
      fee_amount |-> fee_amount,
      fee_mint   |-> fee_mint,
      fee_pct    |-> <<>> ]

\* quote that reads output_mint and rejects a request for one asset twice
quote_rejects_same_mint(self, quote_params, checks) ==
    LET rate == get_rate_for_input_mint(self, quote_params.input_mint) IN
    IF quote_params.output_mint = quote_params.input_mint
    THEN Err(<<"Invalid mint pair", quote_params.input_mint, quote_params.output_mint>>)
    ELSE IF rate.tag # "Ok" THEN rate
    ELSE IF quote_params.swap_mode = "ExactIn"
         THEN LET out == calculate_exact_in(quote_params.amount, rate.val) IN
              IF out.tag # "Ok" THEN out
              ELSE Ok(Quote(quote_params.amount, out.val, <<>>, quote_params.input_mint))
         ELSE LET inp == calculate_exact_out(quote_params.amount, rate.val, checks) IN
              IF inp.tag # "Ok" THEN inp
              ELSE Ok(Quote(inp.val, quote_params.amount, <<>>, quote_params.input_mint))

\* Amm::quote for ReflectAmm; quote_params = [amount, input_mint,
\* output_mint, swap_mode]
quote(self, quote_params, checks) ==
    LET rate == get_rate_for_input_mint(self, quote_params.input_mint) IN
    IF rate.tag # "Ok" THEN rate
    ELSE IF quote_params.swap_mode = "ExactIn"
         THEN LET out == calculate_exact_in(quote_params.amount, rate.val) IN
              IF out.tag # "Ok" THEN out
              ELSE Ok(Quote(quote_params.amount, out.val, <<>>, quote_params.input_mint))
         ELSE LET inp == calculate_exact_out(quote_params.amount, rate.val, checks) IN
              IF inp.tag # "Ok" THEN inp
              ELSE Ok(Quote(inp.val, quote_params.amount, <<>>, quote_params.input_mint))

(***************************************************************************)
(* Account list of the swap instruction.                                   *)
(***************************************************************************)

\* AccountMeta::new(pubkey, is_signer): writable
AccountMeta_new(pubkey, is_signer) ==
    [pubkey |-> pubkey, is_signer |-> is_signer, is_writable |-> TRUE]

\* AccountMeta::new_readonly(pubkey, is_signer)
AccountMeta_new_readonly(pubkey, is_signer) ==
    [pubkey |-> pubkey, is_signer |-> is_signer, is_writable |-> FALSE]

\* the conversion with admin_permissions (#4) passed as writable
ReflectSwap_try_into_admin_writable(swap) ==
    Ok(<< AccountMeta_new(swap.user, TRUE),
          AccountMeta_new(swap.main, FALSE),
          AccountMeta_new(swap.usdc_controller, FALSE),
          AccountMeta_new(swap.admin_permissions, FALSE),
          AccountMeta_new(swap.user_receipt_ata, FALSE),
          AccountMeta_new(swap.user_usdc_ata, FALSE),
          AccountMeta_new(swap.controller_usdc_ata, FALSE),
          AccountMeta_new(swap.receipt_mint, FALSE),
          AccountMeta_new_readonly(swap.drift_program, FALSE),
          AccountMeta_new(swap.drift_state, FALSE),
          AccountMeta_new(swap.drift_user_stats, FALSE),
          AccountMeta_new(swap.referrer_user_stats, FALSE),
          AccountMeta_new(swap.referrer_user, FALSE),
          AccountMeta_new(swap.drift_user_account, FALSE),
          AccountMeta_new(swap.drift_spot_market_vault, FALSE),
          AccountMeta_new(swap.drift_vault, FALSE),
          AccountMeta_new_readonly(token_program_ID, FALSE),
          AccountMeta_new_readonly(system_program_ID, FALSE),
          AccountMeta_new_readonly(sysvar_clock_ID, FALSE),
          AccountMeta_new(swap.usdc_oracle, FALSE),
          AccountMeta_new(swap.drift_usdc_spot_market, FALSE) >>)

\* the conversion with the two remaining accounts in the other order
ReflectSwap_try_into_remaining_swapped(swap) ==
    Ok(<< AccountMeta_new(swap.user, TRUE),
          AccountMeta_new(swap.main, FALSE),
          AccountMeta_new(swap.usdc_controller, FALSE),
          AccountMeta_new_readonly(swap.admin_permissions, FALSE),
          AccountMeta_new(swap.user_receipt_ata, FALSE),
          AccountMeta_new(swap.user_usdc_ata, FALSE),
          AccountMeta_new(swap.controller_usdc_ata, FALSE),
          AccountMeta_new(swap.receipt_mint, FALSE),
          AccountMeta_new_readonly(swap.drift_program, FALSE),
          AccountMeta_new(swap.drift_state, FALSE),
          AccountMeta_new(swap.drift_user_stats, FALSE),
          AccountMeta_new(swap.referrer_user_stats, FALSE),
          AccountMeta_new(swap.referrer_user, FALSE),
          AccountMeta_new(swap.drift_user_account, FALSE),
          AccountMeta_new(swap.drift_spot_market_vault, FALSE),
          AccountMeta_new(swap.drift_vault, FALSE),
          AccountMeta_new_readonly(token_program_ID, FALSE),
          AccountMeta_new_readonly(system_program_ID, FALSE),
          AccountMeta_new_readonly(sysvar_clock_ID, FALSE),
          AccountMeta_new(swap.drift_usdc_spot_market, FALSE),
          AccountMeta_new(swap.usdc_oracle, FALSE) >>)

\* TryFrom<ReflectSwap> for Vec<AccountMeta>; a Vec is a 1-based sequence
\* here, so entry i of the code's Vec is element i + 1
ReflectSwap_try_into(swap) ==
    Ok(<< AccountMeta_new(swap.user, TRUE),
          AccountMeta_new(swap.main, FALSE),
          AccountMeta_new(swap.usdc_controller, FALSE),
          AccountMeta_new_readonly(swap.admin_permissions, FALSE),
          AccountMeta_new(swap.user_receipt_ata, FALSE),
          AccountMeta_new(swap.user_usdc_ata, FALSE),
          AccountMeta_new(swap.controller_usdc_ata, FALSE),
          AccountMeta_new(swap.receipt_mint, FALSE),
          AccountMeta_new_readonly(swap.drift_program, FALSE),
          AccountMeta_new(swap.drift_state, FALSE),
          AccountMeta_new(swap.drift_user_stats, FALSE),
          AccountMeta_new(swap.referrer_user_stats, FALSE),
          AccountMeta_new(swap.referrer_user, FALSE),
          AccountMeta_new(swap.drift_user_account, FALSE),
          AccountMeta_new(swap.drift_spot_market_vault, FALSE),
          AccountMeta_new(swap.drift_vault, FALSE),
          AccountMeta_new_readonly(token_program_ID, FALSE),
          AccountMeta_new_readonly(system_program_ID, FALSE),
          AccountMeta_new_readonly(sysvar_clock_ID, FALSE),
          AccountMeta_new(swap.usdc_oracle, FALSE),
          AccountMeta_new(swap.drift_usdc_spot_market, FALSE) >>)

ErrInvalidMintPair(source_mint, destination_mint) ==
    <<"Invalid mint pair", source_mint, destination_mint>>

\* ReflectSwap with the user's USDC account in the place of the authority
ReflectSwap_user_is_usdc_ata(self, user, user_receipt_ata, user_usdc_ata) ==
    [ user                    |-> user_usdc_ata,
      user_receipt_ata        |-> user_receipt_ata,
      user_usdc_ata           |-> user_usdc_ata,
      main                    |-> self.main,
      usdc_controller         |-> self.usdc_plus_controller,
      admin_permissions       |-> self.admin_permissions,
      controller_usdc_ata     |-> self.controller_usdc_ata,
      receipt_mint            |-> self.usdc_plus_mint,
      drift_program           |-> self.drift_program,
      drift_state             |-> self.drift_state,
      drift_user_stats        |-> self.drift_user_stats,
      referrer_user_stats     |-> self.referrer_user_stats,
      referrer_user           |-> self.referrer_user,
      drift_user_account      |-> self.usdc_plus_drift_user_acc,
      drift_spot_market_vault |-> self.drift_spot_market_vault,
      drift_vault             |-> self.drift_vault,
      usdc_oracle             |-> self.usdc_oracle,
      drift_usdc_spot_market  |-> self.drift_usdc_spot_market ]

\* the ReflectSwap built from the adapter's addresses and the caller's
\* three accounts
ReflectSwap(self, user, user_receipt_ata, user_usdc_ata) ==
    [ user                    |-> user,
      user_receipt_ata        |-> user_receipt_ata,
      user_usdc_ata           |-> user_usdc_ata,
      main                    |-> self.main,
      usdc_controller         |-> self.usdc_plus_controller,
      admin_permissions       |-> self.admin_permissions,
      controller_usdc_ata     |-> self.controller_usdc_ata,
      receipt_mint            |-> self.usdc_plus_mint,
      drift_program           |-> self.drift_program,
      drift_state             |-> self.drift_state,
      drift_user_stats        |-> self.drift_user_stats,
      referrer_user_stats     |-> self.referrer_user_stats,
      referrer_user           |-> self.referrer_user,
      drift_user_account      |-> self.usdc_plus_drift_user_acc,
      drift_spot_market_vault |-> self.drift_spot_market_vault,
      drift_vault             |-> self.drift_vault,
      usdc_oracle             |-> self.usdc_oracle,
      drift_usdc_spot_market  |-> self.drift_usdc_spot_market ]

\* get_swap_and_account_metas whose pair check only asks that source and
\* destination are both supported mints, so the same mint twice passes
get_swap_and_account_metas_same_mint_passes(self, swap_params) ==
    LET source_mint      == swap_params.source_mint
        destination_mint == swap_params.destination_mint
        valid_pair ==
            /\ source_mint \in {usdc_mint_ID, usdc_plus_mint_ID}
            /\ destination_mint \in {usdc_mint_ID, usdc_plus_mint_ID}
        is_deposit == source_mint = usdc_mint_ID
        user_usdc_ata ==
            IF is_deposit THEN swap_params.source_token_account
            ELSE swap_params.destination_token_account
        user_receipt_ata ==
            IF is_deposit THEN swap_params.destination_token_account
            ELSE swap_params.source_token_account
        metas == ReflectSwap_try_into(
                     ReflectSwap(self, swap_params.token_transfer_authority,
                                 user_receipt_ata, user_usdc_ata))
    IN  IF ~valid_pair THEN Err(ErrInvalidMintPair(source_mint, destination_mint))
        ELSE IF metas.tag # "Ok" THEN metas
        ELSE Ok([swap |-> "ReflectS1", account_metas |-> metas.val])

\* get_swap_and_account_metas without is_deposit: the source account is
\* always taken as the user's USDC account
get_swap_and_account_metas_no_direction(self, swap_params) ==
    LET source_mint      == swap_params.source_mint
        destination_mint == swap_params.destination_mint
        valid_pair ==
            \/ source_mint = usdc_mint_ID /\ destination_mint = usdc_plus_mint_ID
            \/ source_mint = usdc_plus_mint_ID /\ destination_mint = usdc_mint_ID
        metas == ReflectSwap_try_into(
                     ReflectSwap(self, swap_params.token_transfer_authority,
                                 swap_params.destination_token_account,
                                 swap_params.source_token_account))
    IN  IF ~valid_pair THEN Err(ErrInvalidMintPair(source_mint, destination_mint))
        ELSE IF metas.tag # "Ok" THEN metas
        ELSE Ok([swap |-> "ReflectS1", account_metas |-> metas.val])

\* Amm::get_swap_and_account_metas for ReflectAmm; of swap_params only
\* source_mint, destination_mint, source_token_account,
\* destination_token_account and token_transfer_authority are read
get_swap_and_account_metas(self, swap_params) ==
    LET source_mint      == swap_params.source_mint
        destination_mint == swap_params.destination_mint
        valid_pair ==
            \/ source_mint = usdc_mint_ID /\ destination_mint = usdc_plus_mint_ID
            \/ source_mint = usdc_plus_mint_ID /\ destination_mint = usdc_mint_ID
        is_deposit == source_mint = usdc_mint_ID
        user_usdc_ata ==
            IF is_deposit THEN swap_params.source_token_account
            ELSE swap_params.destination_token_account
        user_receipt_ata ==
            IF is_deposit THEN swap_params.destination_token_account
            ELSE swap_params.source_token_account
        metas == ReflectSwap_try_into(
                     ReflectSwap(self, swap_params.token_transfer_authority,
                                 user_receipt_ata, user_usdc_ata))
    IN  IF ~valid_pair THEN Err(ErrInvalidMintPair(source_mint, destination_mint))
        ELSE IF metas.tag # "Ok" THEN metas
        ELSE Ok([swap |-> "ReflectS1", account_metas |-> metas.val])

(***************************************************************************)
(* Refreshing the cached rates.                                            *)
(***************************************************************************)

get_accounts_to_update(self) ==
    << self.usdc_plus_controller, self.usdc_plus_drift_user_acc,
       self.usdc_plus_mint, self.drift_usdc_spot_market >>

ErrCouldNotFind(address) == <<"Could not find address", address>>

\* account_map is modelled by the set of its keys; the account data are
\* opaque bytes only the external rate routines read
try_get_account_data(account_map, address) ==
    IF address \in account_map THEN Ok(address) ELSE Err(ErrCouldNotFind(address))

\* update without the lookup of the controller account
update_skips_controller(self, account_map, usdc_plus_returned, usdc_returned) ==
    LET usdc_plus_mint           == try_get_account_data(account_map, self.usdc_plus_mint)
        usdc_plus_drift_user_acc == try_get_account_data(account_map, self.usdc_plus_drift_user_acc)
        drift_usdc_spot_market   == try_get_account_data(account_map, self.drift_usdc_spot_market)
        self1 == [self EXCEPT !.rate_100_usdc = usdc_plus_returned.val]
        self2 == [self1 EXCEPT !.rate_100_usdc_plus = usdc_returned.val]
    IN  IF usdc_plus_mint.tag # "Ok" THEN [self |-> self, res |-> usdc_plus_mint]
        ELSE IF usdc_plus_drift_user_acc.tag # "Ok"
             THEN [self |-> self, res |-> usdc_plus_drift_user_acc]
        ELSE IF drift_usdc_spot_market.tag # "Ok"
             THEN [self |-> self, res |-> drift_usdc_spot_market]
        ELSE IF usdc_plus_returned.tag # "Ok"
             THEN [self |-> self, res |-> usdc_plus_returned]
        ELSE IF usdc_returned.tag # "Ok"
             THEN [self |-> self1, res |-> usdc_returned]
        ELSE [self |-> self2, res |-> Ok(<<>>)]

\* Amm::update for ReflectAmm.  usdc_plus_returned and usdc_returned are the
\* results of usdc_plus_exchange::exchange_rate_usdc_input and
\* exchange_rate_receipt_input, an external crate: Ok(a u64) or Err.
\* The value is the adapter after the call and the call's result.
update(self, account_map, usdc_plus_returned, usdc_returned) ==
    LET usdc_plus_mint           == try_get_account_data(account_map, self.usdc_plus_mint)
        usdc_plus_drift_user_acc == try_get_account_data(account_map, self.usdc_plus_drift_user_acc)
        drift_usdc_spot_market   == try_get_account_data(account_map, self.drift_usdc_spot_market)
        usdc_plus_controller     == try_get_account_data(account_map, self.usdc_plus_controller)
        self1 == [self EXCEPT !.rate_100_usdc = usdc_plus_returned.val]
        self2 == [self1 EXCEPT !.rate_100_usdc_plus = usdc_returned.val]
    IN  IF usdc_plus_mint.tag # "Ok" THEN [self |-> self, res |-> usdc_plus_mint]
        ELSE IF usdc_plus_drift_user_acc.tag # "Ok"
             THEN [self |-> self, res |-> usdc_plus_drift_user_acc]
        ELSE IF drift_usdc_spot_market.tag # "Ok"
             THEN [self |-> self, res |-> drift_usdc_spot_market]
        ELSE IF usdc_plus_controller.tag # "Ok"
             THEN [self |-> self, res |-> usdc_plus_controller]
        ELSE IF usdc_plus_returned.tag # "Ok"
             THEN [self |-> self, res |-> usdc_plus_returned]
        ELSE IF usdc_returned.tag # "Ok"
             THEN [self |-> self1, res |-> usdc_returned]
        ELSE [self |-> self2, res |-> Ok(<<>>)]

\* The capability methods of the Amm trait.  ReflectAmm overrides
\* supports_exact_out and inherits the trait's defaults for the others.
has_dynamic_accounts(self) == FALSE

requires_update_for_reserve_mints(self) == FALSE

supports_exact_out(self) == TRUE

unidirectional(self) == FALSE

is_active(self) == TRUE

(***************************************************************************)
(* The state machine: one adapter, its callers' requests drawn from small  *)
(* sets.                                                                   *)
(***************************************************************************)

\* amounts 0..MaxSmallAmount are requested next to the boundary amounts
MaxSmallAmount == 1

\* the u64 amounts requested: small ones, 50 USDC, u64::MAX
Amounts == {Lit(n) : n \in 0..MaxSmallAmount} \cup {Lit(50000000), u64_MAX}

\* the rates the external rate routines return: 0, 99.5 per 100, u64::MAX
Rates == {<<>>, Lit(99500000), u64_MAX}

\* a mint that is neither USDC nor USDC+ (wrapped SOL)
other_mint_ID == "So11111111111111111111111111111111111111112"

Mints == {usdc_mint_ID, usdc_plus_mint_ID, other_mint_ID}

SwapModes == {"ExactIn", "ExactOut"}

TokenAccounts == {"user_ata_1", "user_ata_2"}

Authorities == {"user_1", "user_2"}

\* the account maps handed to update: complete, one account missing, empty
AccountMaps ==
    LET all == {ReflectAmm_new.usdc_plus_controller,
                ReflectAmm_new.usdc_plus_drift_user_acc,
                ReflectAmm_new.usdc_plus_mint,
                ReflectAmm_new.drift_usdc_spot_market}
    IN  {all, {}} \cup {all \ {a} : a \in all}

\* what an external rate routine returns
ExchangeResults == {Ok(r) : r \in Rates} \cup {Err(<<"exchange rate error">>)}

VARIABLES
    amm,              \* the ReflectAmm
    result,           \* the last call: [op, req, res]
    overflow_checks   \* the build profile: arithmetic overflow checks on/off

vars == <<amm, result, overflow_checks>>

\* a panic unwinds out of the adapter; the model stops there
Panicked == result.res.tag = "Panic"

Init ==
    /\ amm = ReflectAmm_new
    /\ result = [op |-> "new", req |-> <<>>, res |-> Ok(<<>>)]
    /\ overflow_checks \in BOOLEAN

Call_update ==
    /\ ~Panicked
    /\ \E account_map \in AccountMaps, usdc_plus_returned \in ExchangeResults,
          usdc_returned \in ExchangeResults :
          LET u == update(amm, account_map, usdc_plus_returned, usdc_returned) IN
          /\ amm' = u.self
          /\ result' = [op |-> "update", req |-> account_map, res |-> u.res]
    /\ UNCHANGED overflow_checks

\* a quote that clears the cached rate it has just used
Call_quote_clears_rate ==
    /\ ~Panicked
    /\ \E amount \in Amounts, input_mint \in Mints, output_mint \in Mints,
          swap_mode \in SwapModes :
          LET quote_params == [ amount      |-> amount,
                                input_mint  |-> input_mint,
                                output_mint |-> output_mint,
                                swap_mode   |-> swap_mode ]
          IN  /\ result' = [ op  |-> "quote", req |-> quote_params,
                             res |-> quote(amm, quote_params, overflow_checks) ]
              /\ amm' = IF input_mint = usdc_mint_ID
                        THEN [amm EXCEPT !.rate_100_usdc = <<>>]
                        ELSE [amm EXCEPT !.rate_100_usdc_plus = <<>>]
    /\ UNCHANGED overflow_checks

Call_quote ==
    /\ ~Panicked
    /\ \E amount \in Amounts, input_mint \in Mints, output_mint \in Mints,
          swap_mode \in SwapModes :
          LET quote_params == [ amount      |-> amount,
                                input_mint  |-> input_mint,
                                output_mint |-> output_mint,
                                swap_mode   |-> swap_mode ]
          IN  result' = [ op  |-> "quote", req |-> quote_params,
                          res |-> quote(amm, quote_params, overflow_checks) ]
    /\ UNCHANGED <<amm, overflow_checks>>

Call_get_swap_and_account_metas ==
    /\ ~Panicked
    /\ \E source_mint \in Mints, destination_mint \in Mints,
          source_token_account \in TokenAccounts,
          destination_token_account \in TokenAccounts,
          token_transfer_authority \in Authorities :
          LET swap_params ==
                [ source_mint               |-> source_mint,
                  destination_mint          |-> destination_mint,
                  source_token_account      |-> source_token_account,
                  destination_token_account |-> destination_token_account,
                  token_transfer_authority  |-> token_transfer_authority ]
          IN  result' = [ op  |-> "get_swap_and_account_metas",
                          req |-> swap_params,
                          res |-> get_swap_and_account_metas(amm, swap_params) ]
    /\ UNCHANGED <<amm, overflow_checks>>

Next ==
    \/ Call_update
    \/ Call_quote
    \/ Call_get_swap_and_account_metas

Spec == Init /\ [][Next]_vars

(***************************************************************************)
(* The round trip of test_reflect_amm_quote_roundtrip: a caller quotes     *)
(* USDC -> USDC+ and feeds the result into a quote USDC+ -> USDC, on an    *)
(* adapter refreshed with rates around 1:1.                                *)
(***************************************************************************)

\* rates of 50, 100 and 200 per 100: (50, 200), (100, 100) and (200, 50)
\* are reciprocal pairs
RoundTripRates == {Lit(50000000), Lit(100000000), Lit(200000000)}

RoundTripExchangeResults ==
    {Ok(r) : r \in RoundTripRates} \cup {Err(<<"exchange rate error">>)}

\* the test's 1000 USDC next to small amounts and u64::MAX
RoundTripAmounts ==
    {Lit(n) : n \in 0..MaxSmallAmount} \cup {Lit(1000000000), u64_MAX}

RoundTrip_update ==
    /\ ~Panicked
    /\ \E account_map \in AccountMaps,
          usdc_plus_returned \in RoundTripExchangeResults,
          usdc_returned \in RoundTripExchangeResults :
          LET u == update(amm, account_map, usdc_plus_returned, usdc_returned) IN
          /\ amm' = u.self
          /\ result' = [op |-> "update", req |-> account_map, res |-> u.res]
    /\ UNCHANGED overflow_checks

\* quote1 = quote(initial_usdc, USDC -> USDC+, ExactIn).unwrap(), then
\* quote2 = quote(quote1.out_amount, USDC+ -> USDC, ExactIn).unwrap();
\* res is quote2, or the error that stopped the round trip
Call_roundtrip ==
    /\ ~Panicked
    /\ \E initial_usdc \in RoundTripAmounts :
          LET quote1 == quote(amm, [ amount      |-> initial_usdc,
                                     input_mint  |-> usdc_mint_ID,
                                     output_mint |-> usdc_plus_mint_ID,
                                     swap_mode   |-> "ExactIn" ],
                              overflow_checks)
              quote2 == quote(amm, [ amount      |-> quote1.val.out_amount,
                                     input_mint  |-> usdc_plus_mint_ID,
                                     output_mint |-> usdc_mint_ID,
                                     swap_mode   |-> "ExactIn" ],
                              overflow_checks)
          IN  result' = [ op  |-> "roundtrip",
                          req |-> [initial_usdc |-> initial_usdc, quote1 |-> quote1],
                          res |-> IF quote1.tag # "Ok" THEN quote1 ELSE quote2 ]
    /\ UNCHANGED <<amm, overflow_checks>>

NextRoundTrip ==
    \/ RoundTrip_update
    \/ Call_roundtrip

SpecRoundTrip == Init /\ [][NextRoundTrip]_vars

(***************************************************************************)
(* Vocabulary of the properties.                                           *)
(***************************************************************************)

\* REF, the reference denomination: 100 units of 10^6
REF == Lit(100000000)

\* 2^64, the first value a u64 cannot hold
TwoTo64 == Add(u64_MAX, Lit(1))

\* q = floor(n / d), said without dividing: q * d <= n < (q + 1) * d
IsFloorDiv(q, n, d) == Leq(Mul(q, d), n) /\ Lt(n, Mul(Add(q, Lit(1)), d))

\* q = ceil(n / d), said without dividing: (q - 1) * d < n <= q * d
IsCeilDiv(q, n, d) ==
    /\ Leq(n, Mul(q, d))
    /\ (q = <<>> \/ Lt(Mul(Sub(q, Lit(1)), d), n))

\* the error kinds of the design, by the message the code raises
ErrorKind(res) ==
    IF res.tag # "Err" THEN "none"
    ELSE IF res.err[1] = "Invalid input mint" THEN "UnsupportedAsset"
    ELSE IF res.err[1] = "Overflow in quote calculation" THEN "ArithmeticOverflow"
    ELSE IF res.err[1] = "Division error in quote calculation" THEN "RateUnavailable"
    ELSE IF res.err[1] = "Invalid mint pair" THEN "InvalidAssetPair"
    ELSE "Upstream"

SupportedMints == {usdc_mint_ID, usdc_plus_mint_ID}

\* the cached rate of an input asset
CachedRate(mint) ==
    IF mint = usdc_mint_ID THEN amm.rate_100_usdc ELSE amm.rate_100_usdc_plus

\* the last call was a quote in this mode for a supported input asset
QuotedSupported(mode) ==
    /\ result.op = "quote"
    /\ result.req.swap_mode = mode
    /\ result.req.input_mint \in SupportedMints

(***************************************************************************)
(* Properties of quote.                                                    *)
(***************************************************************************)

\* C1 as stated: for every u64 amount a and every cached rate r > 0 of the
\* input asset, an ExactIn quote succeeds with out_amount = floor(a * r / REF)
\* and in_amount = a.
C1_ExactInAlwaysFloor ==
    (QuotedSupported("ExactIn") /\ CachedRate(result.req.input_mint) # <<>>)
    => /\ result.res.tag = "Ok"
       /\ IsFloorDiv(result.res.val.out_amount,
                     Mul(result.req.amount, CachedRate(result.req.input_mint)), REF)
       /\ result.res.val.in_amount = result.req.amount

\* floor(a * r / REF) is a u64
ExactInFits(a, r) == Lt(Mul(a, r), Mul(TwoTo64, REF))

\* C1 amended: for every u64 amount a and every cached rate r > 0 of the input
\* asset with floor(a * r / REF) <= u64::MAX, an ExactIn quote succeeds with
\* out_amount = floor(a * r / REF) exactly and in_amount = a.
C1_ExactInFloorWhenFits ==
    (/\ QuotedSupported("ExactIn")
     /\ CachedRate(result.req.input_mint) # <<>>
     /\ ExactInFits(result.req.amount, CachedRate(result.req.input_mint)))
    => /\ result.res.tag = "Ok"
       /\ IsFloorDiv(result.res.val.out_amount,
                     Mul(result.req.amount, CachedRate(result.req.input_mint)), REF)
       /\ result.res.val.in_amount = result.req.amount

\* an ExactIn quote of 1 unit at rate 99.5 per 100 was answered: the exact
\* quotient 0.995 is rounded down to 0
C1_Witness ==
    /\ QuotedSupported("ExactIn")
    /\ result.req.amount = Lit(1)
    /\ CachedRate(result.req.input_mint) = Lit(99500000)
    /\ result.res.tag = "Ok"
    /\ result.res.val.out_amount = <<>>

\* C2 as stated: for every u64 amount a and every cached rate r > 0 of the
\* input asset, an ExactOut quote succeeds with in_amount = ceil(a * REF / r)
\* and out_amount = a.
C2_ExactOutAlwaysCeil ==
    (QuotedSupported("ExactOut") /\ CachedRate(result.req.input_mint) # <<>>)
    => /\ result.res.tag = "Ok"
       /\ IsCeilDiv(result.res.val.in_amount,
                    Mul(result.req.amount, REF), CachedRate(result.req.input_mint))
       /\ result.res.val.out_amount = result.req.amount

\* ceil(a * REF / r) is a u64
ExactOutFits(a, r) == Leq(Mul(a, REF), Mul(u64_MAX, r))

\* C2 amended: for every u64 amount a and every cached rate r > 0 of the input
\* asset with ceil(a * REF / r) <= u64::MAX, an ExactOut quote succeeds with
\* in_amount = ceil(a * REF / r) exactly and out_amount = a.
C2_ExactOutCeilWhenFits ==
    (/\ QuotedSupported("ExactOut")
     /\ CachedRate(result.req.input_mint) # <<>>
     /\ ExactOutFits(result.req.amount, CachedRate(result.req.input_mint)))
    => /\ result.res.tag = "Ok"
       /\ IsCeilDiv(result.res.val.in_amount,
                    Mul(result.req.amount, REF), CachedRate(result.req.input_mint))
       /\ result.res.val.out_amount = result.req.amount

\* an ExactOut quote of 1 unit at rate 99.5 per 100 was answered: the exact
\* quotient 1.005... is rounded up to 2
C2_Witness ==
    /\ QuotedSupported("ExactOut")
    /\ result.req.amount = Lit(1)
    /\ CachedRate(result.req.input_mint) = Lit(99500000)
    /\ result.res.tag = "Ok"
    /\ result.res.val.in_amount = Lit(2)

\* the ExactIn quote of amount i for the same input asset on the same adapter
QuoteBack(i) ==
    quote(amm, [result.req EXCEPT !.amount = i, !.swap_mode = "ExactIn"],
          overflow_checks)

\* C3: ExactOut never under-quotes: when an ExactOut quote of a at rate r > 0
\* returns in_amount = i, the ExactIn quote of i for the same input asset at
\* the same rate returns out_amount >= a.
C3_ExactOutNeverUnderQuotes ==
    (/\ QuotedSupported("ExactOut")
     /\ CachedRate(result.req.input_mint) # <<>>
     /\ result.res.tag = "Ok")
    => /\ QuoteBack(result.res.val.in_amount).tag = "Ok"
       /\ Leq(result.req.amount, QuoteBack(result.res.val.in_amount).val.out_amount)

\* C4: with a cached rate of 0 for the input asset, an ExactOut quote returns
\* the RateUnavailable error as a value for every amount, amount 0 included;
\* it does not panic and does not underflow in rate - 1.
C4_ExactOutZeroRateIsRateUnavailable ==
    (QuotedSupported("ExactOut") /\ CachedRate(result.req.input_mint) = <<>>)
    => ErrorKind(result.res) = "RateUnavailable"

\* C5: with a cached rate of 0 for the input asset (as on a new adapter), an
\* ExactIn quote fails with RateUnavailable for every amount; it does not
\* succeed with out_amount 0.
C5_ExactInZeroRateIsRateUnavailable ==
    (QuotedSupported("ExactIn") /\ CachedRate(result.req.input_mint) = <<>>)
    => ErrorKind(result.res) = "RateUnavailable"

\* C6: for an input asset that is neither USDC nor USDC+, quote fails with
\* UnsupportedAsset for every amount, both swap modes and all cached rates.
C6_UnsupportedInputRejected ==
    (result.op = "quote" /\ result.req.input_mint \notin SupportedMints)
    => ErrorKind(result.res) = "UnsupportedAsset"

\* an ExactOut quote of u64::MAX for the unsupported mint was rejected on an
\* adapter whose two rates are set
C6_Witness ==
    /\ result.op = "quote"
    /\ result.req.input_mint = other_mint_ID
    /\ result.req.swap_mode = "ExactOut"
    /\ result.req.amount = u64_MAX
    /\ amm.rate_100_usdc # <<>>
    /\ amm.rate_100_usdc_plus # <<>>
    /\ result.res = Err(<<"Invalid input mint", other_mint_ID>>)

\* C7: quote is overflow-checked end to end: when the resolved amount does not
\* fit a u64 the quote fails with ArithmeticOverflow, and a successful quote
\* returns the exact resolved amount, never one wrapped modulo 2^64.
C7_OverflowChecked ==
    /\ (QuotedSupported("ExactIn") /\ CachedRate(result.req.input_mint) # <<>>)
       => IF ExactInFits(result.req.amount, CachedRate(result.req.input_mint))
          THEN result.res.tag = "Ok"
               => IsFloorDiv(result.res.val.out_amount,
                             Mul(result.req.amount, CachedRate(result.req.input_mint)),
                             REF)
          ELSE ErrorKind(result.res) = "ArithmeticOverflow"
    /\ (QuotedSupported("ExactOut") /\ CachedRate(result.req.input_mint) # <<>>)
       => IF ExactOutFits(result.req.amount, CachedRate(result.req.input_mint))
          THEN result.res.tag = "Ok"
               => IsCeilDiv(result.res.val.in_amount,
                            Mul(result.req.amount, REF),
                            CachedRate(result.req.input_mint))
          ELSE ErrorKind(result.res) = "ArithmeticOverflow"

\* the last call was quote(ExactOut, 50_000_000) with USDC as input at a
\* cached USDC rate of 99_500_000
C8_Scenario ==
    /\ result.op = "quote"
    /\ result.req.swap_mode = "ExactOut"
    /\ result.req.input_mint = usdc_mint_ID
    /\ result.req.amount = Lit(50000000)
    /\ amm.rate_100_usdc = Lit(99500000)

\* C8 as stated: at rate 99_500_000, quote(ExactOut, 50_000_000) with USDC as
\* input returns in_amount = 50_251_256 and out_amount = 50_000_000.
C8_ScenarioGives50251256 ==
    C8_Scenario
    => /\ result.res.tag = "Ok"
       /\ result.res.val.in_amount = Lit(50251256)
       /\ result.res.val.out_amount = Lit(50000000)

\* C8 amended: at rate 99_500_000, quote(ExactOut, 50_000_000) with USDC as
\* input returns in_amount = 50_251_257 and out_amount = 50_000_000.
C8_ScenarioGives50251257 ==
    C8_Scenario
    => /\ result.res.tag = "Ok"
       /\ result.res.val.in_amount = Lit(50251257)
       /\ result.res.val.out_amount = Lit(50000000)

\* the scenario's quote was made and answered
C8_Witness == C8_Scenario /\ result.res.tag = "Ok"

\* C9: every successful quote has fee_amount = 0 and fee_mint equal to the
\* request's input asset.
C9_NoFeeOnInputAsset ==
    (result.op = "quote" /\ result.res.tag = "Ok")
    => /\ result.res.val.fee_amount = <<>>
       /\ result.res.val.fee_mint = result.req.input_mint

\* a successful ExactOut quote with USDC+ as input and a non-zero result
C9_Witness ==
    /\ QuotedSupported("ExactOut")
    /\ result.req.input_mint = usdc_plus_mint_ID
    /\ result.res.tag = "Ok"
    /\ result.res.val.in_amount # <<>>

(***************************************************************************)
(* Properties of get_swap_and_account_metas.                               *)
(***************************************************************************)

\* the last call was a plan for USDC -> USDC+ or USDC+ -> USDC
PlannedValidPair ==
    /\ result.op = "get_swap_and_account_metas"
    /\ \/ /\ result.req.source_mint = usdc_mint_ID
          /\ result.req.destination_mint = usdc_plus_mint_ID
       \/ /\ result.req.source_mint = usdc_plus_mint_ID
          /\ result.req.destination_mint = usdc_mint_ID

\* C10: a plan for (USDC, USDC+) or (USDC+, USDC) succeeds for every source
\* account, destination account and authority, with exactly 21 entries, the
\* first of which is the caller's authority, signer and writable.
C10_PlanSucceedsWith21Entries ==
    PlannedValidPair
    => /\ result.res.tag = "Ok"
       /\ Len(result.res.val.account_metas) = 21
       /\ result.res.val.account_metas[1] =
              [ pubkey      |-> result.req.token_transfer_authority,
                is_signer   |-> TRUE,
                is_writable |-> TRUE ]

\* a withdrawal (USDC+ -> USDC) was planned for the second authority with
\* distinct token accounts
C10_Witness ==
    /\ PlannedValidPair
    /\ result.req.source_mint = usdc_plus_mint_ID
    /\ result.req.token_transfer_authority = "user_2"
    /\ result.req.source_token_account # result.req.destination_token_account
    /\ result.res.tag = "Ok"

\* the last call was a plan
Planned == result.op = "get_swap_and_account_metas"

\* C11: a plan fails with InvalidAssetPair for every pair other than
\* (USDC, USDC+) and (USDC+, USDC): the same asset twice, or a pair with an
\* asset outside {USDC, USDC+}; no account list is returned.
C11_InvalidPairRejected ==
    (Planned /\ ~PlannedValidPair)
    => /\ ErrorKind(result.res) = "InvalidAssetPair"
       /\ result.res = Err(<<"Invalid mint pair", result.req.source_mint,
                             result.req.destination_mint>>)

\* a plan for (USDC+, USDC+) was rejected
C11_Witness ==
    /\ Planned
    /\ result.req.source_mint = usdc_plus_mint_ID
    /\ result.req.destination_mint = usdc_plus_mint_ID
    /\ result.res.tag = "Err"

\* the 1-based positions of the read-only entries: admin/permissions, venue
\* program, token program, system program, clock
ReadOnlyEntries == {4, 9, 17, 18, 19}

\* C12: in every successful plan entry 1 is the only signer, the read-only
\* entries are exactly 4, 9, 17, 18 and 19, and every other entry is writable.
C12_RoleFlagsByPosition ==
    (Planned /\ result.res.tag = "Ok")
    => \A i \in DOMAIN result.res.val.account_metas :
          /\ result.res.val.account_metas[i].is_signer = (i = 1)
          /\ result.res.val.account_metas[i].is_writable = (i \notin ReadOnlyEntries)

\* a deposit was planned and its list has the 21 flagged entries
C12_Witness ==
    /\ PlannedValidPair
    /\ result.req.source_mint = usdc_mint_ID
    /\ result.res.tag = "Ok"
    /\ DOMAIN result.res.val.account_metas = 1..21

\* the user's USDC+ and USDC accounts of the last plan request
UserReceiptAccount ==
    IF result.req.source_mint = usdc_mint_ID
    THEN result.req.destination_token_account
    ELSE result.req.source_token_account

UserUsdcAccount ==
    IF result.req.source_mint = usdc_mint_ID
    THEN result.req.source_token_account
    ELSE result.req.destination_token_account

\* C13: in every successful plan the 21 addresses are, in order: authority,
\* main state, controller, admin/permissions, user USDC+ account, user USDC
\* account, controller USDC holding account, USDC+ mint, venue program, venue
\* state, user-stats, referrer-stats, referrer, controller's venue position
\* account, spot-market vault, venue vault, token program, system program,
\* clock, price oracle, venue USDC market; static entries are the configured
\* addresses.
C13_AddressOrder ==
    (Planned /\ result.res.tag = "Ok")
    => [i \in DOMAIN result.res.val.account_metas |->
            result.res.val.account_metas[i].pubkey]
       = << result.req.token_transfer_authority,
            reflect_main_ID,
            usdc_controller_ID,
            admin_permissions_ID,
            UserReceiptAccount,
            UserUsdcAccount,
            controller_usdc_ata_ID,
            usdc_plus_mint_ID,
            drift_ID,
            drift_state_ID,
            drift_user_stats_ID,
            referrer_user_stats_ID,
            referrer_user_ID,
            reflect_user_account_strategy_0_ID,
            drift_spot_market_vault_ID,
            drift_vault_ID,
            token_program_ID,
            system_program_ID,
            sysvar_clock_ID,
            usdc_oracle_ID,
            usdc_spot_market_ID >>

\* a withdrawal with distinct token accounts was planned after a refresh
C13_Witness ==
    /\ PlannedValidPair
    /\ result.req.source_mint = usdc_plus_mint_ID
    /\ result.req.source_token_account = "user_ata_1"
    /\ result.req.destination_token_account = "user_ata_2"
    /\ amm.rate_100_usdc # <<>>
    /\ result.res.tag = "Ok"

(***************************************************************************)
(* Properties of update.                                                   *)
(***************************************************************************)

\* the two cached rates of an adapter
RatePair(a) == <<a.rate_100_usdc, a.rate_100_usdc_plus>>

\* C14: after any update call, returning Ok or failing at any step, the
\* cached pair is either the pair held before the call or the pair of both
\* newly computed rates, never one new rate next to one old rate.
C14_RefreshIsAllOrNothing ==
    [][ result'.op = "update"
        => \E usdc_plus_returned \in ExchangeResults, usdc_returned \in ExchangeResults :
              LET u == update(amm, result'.req, usdc_plus_returned, usdc_returned) IN
              /\ u.self = amm'
              /\ u.res = result'.res
              /\ \/ RatePair(amm') = RatePair(amm)
                 \/ /\ usdc_plus_returned.tag = "Ok"
                    /\ usdc_returned.tag = "Ok"
                    /\ RatePair(amm') = <<usdc_plus_returned.val, usdc_returned.val>>
      ]_vars

\* the answer to a quote request when the conversion is done at this rate
QuoteAtRate(req, rate) ==
    LET r == IF req.swap_mode = "ExactIn"
             THEN calculate_exact_in(req.amount, rate)
             ELSE calculate_exact_out(req.amount, rate, overflow_checks)
    IN  IF r.tag # "Ok" THEN r
        ELSE Ok([ in_amount  |-> IF req.swap_mode = "ExactIn" THEN req.amount ELSE r.val,
                  out_amount |-> IF req.swap_mode = "ExactIn" THEN r.val ELSE req.amount,
                  fee_amount |-> <<>>,
                  fee_mint   |-> req.input_mint,
                  fee_pct    |-> <<>> ])

\* C15: an update that succeeds with computed rates (r_base, r_receipt) caches
\* exactly that pair, and every quote leaves the pair alone and is answered at
\* r_base for USDC input and at r_receipt for USDC+ input; so until the next
\* update no quote is computed from a rate cached before the refresh.
C15_QuotesUseRefreshedRates ==
    [][ /\ (result'.op = "update" /\ result'.res.tag = "Ok")
           => \E r_base \in Rates, r_receipt \in Rates :
                 /\ update(amm, result'.req, Ok(r_base), Ok(r_receipt)).self = amm'
                 /\ RatePair(amm') = <<r_base, r_receipt>>
        /\ (result'.op = "quote" /\ result'.req.input_mint \in SupportedMints)
           => /\ RatePair(amm') = RatePair(amm)
              /\ result'.res =
                    QuoteAtRate(result'.req,
                                IF result'.req.input_mint = usdc_mint_ID
                                THEN RatePair(amm)[1] ELSE RatePair(amm)[2])
      ]_vars

\* after a refresh to the pair (99_500_000, u64::MAX) an ExactIn quote of
\* 50_000_000 USDC+ was answered at the USDC+ rate
C15_Witness ==
    /\ RatePair(amm) = <<Lit(99500000), u64_MAX>>
    /\ QuotedSupported("ExactIn")
    /\ result.req.input_mint = usdc_plus_mint_ID
    /\ result.req.amount = Lit(50000000)
    /\ result.res.tag = "Ok"
    /\ IsFloorDiv(result.res.val.out_amount, Mul(Lit(50000000), u64_MAX), REF)

(***************************************************************************)
(* Frame properties.                                                       *)
(***************************************************************************)

\* asking the adapter the last request again, in the state the call left
RepeatLast ==
    IF result.op = "quote" THEN quote(amm, result.req, overflow_checks)
    ELSE get_swap_and_account_metas(amm, result.req)

\* C16: quote and plan have no side effects: whether they succeed or fail they
\* leave the cached rates and every configured address unchanged, so the same
\* request repeated with no update in between returns the same result.
C16_QuoteAndPlanHaveNoSideEffects ==
    /\ [][ result'.op \in {"quote", "get_swap_and_account_metas"}
           => /\ amm' = amm
              /\ (result.op = result'.op /\ result.req = result'.req)
                 => result'.res = result.res ]_vars
    /\ [](result.op \in {"quote", "get_swap_and_account_metas"}
          => RepeatLast = result.res)

\* a plan was rejected on an adapter refreshed to (99_500_000, 99_500_000),
\* which still holds that pair and its addresses
C16_Witness ==
    /\ Planned
    /\ result.res.tag = "Err"
    /\ amm = [ReflectAmm_new EXCEPT !.rate_100_usdc = Lit(99500000),
                                    !.rate_100_usdc_plus = Lit(99500000)]

(***************************************************************************)
(* The round trip.                                                         *)
(***************************************************************************)

\* rate_base_to_receipt * rate_receipt_to_base = REF^2
ReciprocalRates == Mul(amm.rate_100_usdc, amm.rate_100_usdc_plus) = Mul(REF, REF)

\* ceil(rate_receipt_to_base / REF) + 1
RoundTripTolerance ==
    Add(Div(Add(amm.rate_100_usdc_plus, Sub(REF, Lit(1))), REF), Lit(1))

\* C17: with reciprocal cached rates, quoting X USDC -> USDC+ (ExactIn) to get
\* Y and then Y USDC+ -> USDC to get Z gives Z <= X and
\* X - Z <= ceil(rate_receipt_to_base / REF) + 1 for every X; for
\* X = 1_000_000_000 the difference is at most X / 10000.
C17_RoundTripWithinTolerance ==
    (result.op = "roundtrip" /\ ReciprocalRates)
    => /\ result.req.quote1.tag = "Ok"
       /\ result.res.tag = "Ok"
       /\ Leq(result.res.val.out_amount, result.req.initial_usdc)
       /\ Leq(result.req.initial_usdc,
              Add(result.res.val.out_amount, RoundTripTolerance))
       /\ result.req.initial_usdc = Lit(1000000000)
          => Leq(result.req.initial_usdc,
                 Add(result.res.val.out_amount, Lit(100000)))

(***************************************************************************)
(* The capability methods.                                                 *)
(***************************************************************************)

\* C18: in every state supports_exact_out() is false, has_dynamic_accounts()
\* is false, requires_update_for_reserve_mints() is false, unidirectional()
\* is false and is_active() is true.
C18_ExactOutReportedUnsupported ==
    /\ ~supports_exact_out(amm)
    /\ ~has_dynamic_accounts(amm)
    /\ ~requires_update_for_reserve_mints(amm)
    /\ ~unidirectional(amm)
    /\ is_active(amm)

(***************************************************************************)
(* The direction of a plan.                                                *)
(***************************************************************************)

\* the last plan's request in the other direction: mints exchanged, the two
\* caller accounts exchanged, the same authority
MirroredRequest ==
    [ source_mint               |-> result.req.destination_mint,
      destination_mint          |-> result.req.source_mint,
      source_token_account      |-> result.req.destination_token_account,
      destination_token_account |-> result.req.source_token_account,
      token_transfer_authority  |-> result.req.token_transfer_authority ]

\* C19: for all accounts S, D and authority A, the plan for (USDC -> USDC+,
\* source S, destination D, A) and the plan for (USDC+ -> USDC, source D,
\* destination S, A) have the same tag ReflectS1 and identical 21-entry lists,
\* with the user's USDC+ account at entry 5 and the user's USDC account at
\* entry 6.
C19_DirectionOnlyAssignsRoles ==
    PlannedValidPair
    => /\ result.res.tag = "Ok"
       /\ result.res.val.swap = "ReflectS1"
       /\ Len(result.res.val.account_metas) = 21
       /\ get_swap_and_account_metas(amm, MirroredRequest) = result.res
       /\ result.res.val.account_metas[5].pubkey = UserReceiptAccount
       /\ result.res.val.account_metas[6].pubkey = UserUsdcAccount

\* a deposit plan from user_ata_2 to user_ata_1 succeeded
C19_Witness ==
    /\ PlannedValidPair
    /\ result.res.tag = "Ok"
    /\ result.req.source_mint = usdc_mint_ID
    /\ result.req.source_token_account = "user_ata_2"
    /\ result.req.destination_token_account = "user_ata_1"
    /\ result.res.val.account_metas[5].pubkey = "user_ata_1"
    /\ result.res.val.account_metas[6].pubkey = "user_ata_2"

(***************************************************************************)
(* The accounts update needs.                                              *)
(***************************************************************************)

\* the addresses of get_accounts_to_update absent from the last update's map
MissingAccounts(a, account_map) ==
    {get_accounts_to_update(a)[i] : i \in 1..Len(get_accounts_to_update(a))}
        \ account_map

\* C20: get_accounts_to_update is in every state exactly the controller, the
\* controller's venue position account, the USDC+ mint and the venue USDC
\* market; an update whose account map lacks any of the four returns an error
\* and leaves both cached rates as they were.
C20_MissingAccountFailsUpdate ==
    /\ [](/\ Len(get_accounts_to_update(amm)) = 4
          /\ {get_accounts_to_update(amm)[i] : i \in 1..4}
             = {usdc_controller_ID, reflect_user_account_strategy_0_ID,
                usdc_plus_mint_ID, usdc_spot_market_ID})
    /\ [][ (result'.op = "update" /\ MissingAccounts(amm, result'.req) # {})
           => /\ result'.res.tag = "Err"
              /\ RatePair(amm') = RatePair(amm) ]_vars

\* an update without the controller account failed on an adapter that holds
\* refreshed rates
C20_Witness ==
    /\ result.op = "update"
    /\ MissingAccounts(amm, result.req) = {usdc_controller_ID}
    /\ result.res = Err(ErrCouldNotFind(usdc_controller_ID))
    /\ RatePair(amm) = <<Lit(99500000), u64_MAX>>

(***************************************************************************)
(* The output asset of a quote request.                                    *)
(***************************************************************************)

\* the last call was a quote for a supported input asset whose pair a plan
\* does not accept: the same asset twice or an output outside {USDC, USDC+}
QuotedInvalidPair ==
    /\ result.op = "quote"
    /\ result.req.input_mint \in SupportedMints
    /\ \/ result.req.output_mint = result.req.input_mint
       \/ result.req.output_mint \notin SupportedMints

\* the last quote's result is the result for every output asset
SameForEveryOutputMint ==
    \A output_mint \in Mints :
        quote(amm, [result.req EXCEPT !.output_mint = output_mint], overflow_checks)
            = result.res

\* every plan for the last quote's pair of assets is rejected
PlanRejectsQuotedPair ==
    \A source_token_account \in TokenAccounts,
       destination_token_account \in TokenAccounts,
       token_transfer_authority \in Authorities :
        get_swap_and_account_metas(amm,
            [ source_mint               |-> result.req.input_mint,
              destination_mint          |-> result.req.output_mint,
              source_token_account      |-> source_token_account,
              destination_token_account |-> destination_token_account,
              token_transfer_authority  |-> token_transfer_authority ]).tag = "Err"

\* C21 as stated: for a fixed amount, input asset, swap mode and cached rates
\* quote returns the same result for every output_mint, and a request whose
\* output asset equals its input asset or lies outside {USDC, USDC+} succeeds
\* whenever the input asset is supported, although the plan rejects the pair.
C21_QuoteSucceedsForAnyOutputMint ==
    /\ result.op = "quote" => SameForEveryOutputMint
    /\ QuotedInvalidPair => (result.res.tag = "Ok" /\ PlanRejectsQuotedPair)

\* C21 as the code has it: quote returns the same result for every
\* output_mint; a request for a supported input asset whose output asset
\* equals the input asset or lies outside {USDC, USDC+} succeeds exactly when
\* the mode is ExactIn or the cached rate of the input asset is not 0 (an
\* ExactOut quote at rate 0 fails or panics for every output asset), although
\* the plan rejects the pair.
C21_QuoteIgnoresOutputMint ==
    /\ result.op = "quote" => SameForEveryOutputMint
    /\ QuotedInvalidPair
       => /\ result.res.tag = "Ok"
             <=> \/ result.req.swap_mode = "ExactIn"
                 \/ CachedRate(result.req.input_mint) # <<>>
          /\ PlanRejectsQuotedPair

\* an ExactOut quote of USDC for USDC succeeded at a refreshed rate
C21_Witness ==
    /\ QuotedInvalidPair
    /\ result.req.swap_mode = "ExactOut"
    /\ result.req.input_mint = usdc_mint_ID
    /\ result.req.output_mint = usdc_mint_ID
    /\ result.req.amount = Lit(50000000)
    /\ amm.rate_100_usdc = Lit(99500000)
    /\ result.res.tag = "Ok"

====
